---- MODULE Spec2Model ----
(***************************************************************************)
(* A model of the jsonparse crate (src/src/lib.rs): the Value tree, the    *)
(* Tokenizer over a peekable character cursor, the recursive-descent       *)
(* Parser over a peekable token cursor, the Display rendering and the soft *)
(* lookups.  Text is a sequence of one-character strings.                  *)
(***************************************************************************)
EXTENDS Integers, Sequences, FiniteSets, TLC

VARIABLES input, doc, tag, pos, peeked, taken, stack, ctl, ret, result,
          tokLog, errSeen, phase, first, cur, missed, hops

vars == <<input, doc, tag, pos, peeked, taken, stack, ctl, ret, result,
          tokLog, errSeen, phase, first, cur, missed, hops>>

(***************************************************************************)
(* Option<T>                                                               *)
(***************************************************************************)
None == [some |-> FALSE]
Some(x) == [some |-> TRUE, val |-> x]

(***************************************************************************)
(* enum Value                                                              *)
(* A Float is kept as the decimal it was read from, normalised (no leading *)
(* zeros in ip, no trailing zeros in fp): two short literals denote the    *)
(* same f32 exactly when they normalise to the same decimal.               *)
(***************************************************************************)
VInt(n) == [kind |-> "Int", i |-> n]
VFloat(ip, fp) == [kind |-> "Float", ip |-> ip, fp |-> fp]
JsonString(s) == [kind |-> "JsonString", s |-> s]
Array(v) == [kind |-> "Array", v |-> v]
Object(map) == [kind |-> "Object", map |-> map]
Bool(b) == [kind |-> "Bool", b |-> b]
Null == [kind |-> "Null"]

(***************************************************************************)
(* enum Token                                                              *)
(***************************************************************************)
TokValue(v) == [t |-> "Value", val |-> v]
CurlyBracketOpen == [t |-> "CurlyBracketOpen"]
CurlyBracketClose == [t |-> "CurlyBracketClose"]
BracketOpen == [t |-> "BracketOpen"]
BracketClose == [t |-> "BracketClose"]
Comma == [t |-> "Comma"]
Colon == [t |-> "Colon"]

(***************************************************************************)
(* Characters                                                              *)
(***************************************************************************)
DigitChars == <<"0", "1", "2", "3", "4", "5", "6", "7", "8", "9">>
IsDigit(c) == \E i \in 1..10 : DigitChars[i] = c
DigitVal(c) == (CHOOSE i \in 1..10 : DigitChars[i] = c) - 1
IsWhitespace(c) == c \in {" ", "\n"}
Min(a, b) == IF a < b THEN a ELSE b

(***************************************************************************)
(* str::parse::<i32>: checked accumulation, most significant digit first   *)
(***************************************************************************)
I32Max == 2147483647

RECURSIVE ParseI32From(_, _, _)
ParseI32From(run, k, acc) ==
    IF k > Len(run) THEN Some(acc)
    ELSE IF ~IsDigit(run[k]) THEN None
    ELSE IF acc > I32Max \div 10 THEN None
    ELSE IF acc * 10 > I32Max - DigitVal(run[k]) THEN None
    ELSE ParseI32From(run, k + 1, acc * 10 + DigitVal(run[k]))

ParseI32(run) == IF run = <<>> THEN None ELSE ParseI32From(run, 1, 0)

(***************************************************************************)
(* str::parse::<f32> on a run over 0-9 and '.'                             *)
(***************************************************************************)
RECURSIVE StripLeadingZeros(_)
StripLeadingZeros(ds) ==
    IF Len(ds) > 1 /\ Head(ds) = "0" THEN StripLeadingZeros(Tail(ds)) ELSE ds

RECURSIVE StripTrailingZeros(_)
StripTrailingZeros(ds) ==
    IF ds # <<>> /\ ds[Len(ds)] = "0"
    THEN StripTrailingZeros(SubSeq(ds, 1, Len(ds) - 1))
    ELSE ds

Dots(run) == {k \in 1..Len(run) : run[k] = "."}

ParseF32(run) ==
    IF Cardinality(Dots(run)) > 1 \/ \A k \in 1..Len(run) : run[k] = "."
    THEN None
    ELSE IF Dots(run) = {}
    THEN Some(VFloat(StripLeadingZeros(run), <<>>))
    ELSE LET d == CHOOSE k \in Dots(run) : TRUE
             ip == SubSeq(run, 1, d - 1)
             fp == SubSeq(run, d + 1, Len(run))
         IN Some(VFloat(StripLeadingZeros(IF ip = <<>> THEN <<"0">> ELSE ip),
                       StripTrailingZeros(fp)))

(***************************************************************************)
(* Tokenizer: p is the number of characters already consumed               *)
(***************************************************************************)
TokRes(tok, p) == [tok |-> tok, pos |-> p]

RECURSIVE NumberRunEnd(_, _)
NumberRunEnd(inp, p) ==
    IF p < Len(inp) /\ (IsDigit(inp[p + 1]) \/ inp[p + 1] = ".")
    THEN NumberRunEnd(inp, p + 1)
    ELSE p

\* next_number trying f32 before i32
next_number_FloatFirst(inp, p) ==
    LET q == NumberRunEnd(inp, p)
        found_number == SubSeq(inp, p + 1, q)
        asInt == ParseI32(found_number)
        asFloat == ParseF32(found_number)
    IN IF asFloat.some THEN TokRes(Some(TokValue(asFloat.val)), q)
       ELSE IF asInt.some THEN TokRes(Some(TokValue(VInt(asInt.val))), q)
       ELSE TokRes(None, q)

next_number(inp, p) ==
    LET q == NumberRunEnd(inp, p)
        found_number == SubSeq(inp, p + 1, q)
        asInt == ParseI32(found_number)
        asFloat == ParseF32(found_number)
    IN IF asInt.some THEN TokRes(Some(TokValue(VInt(asInt.val))), q)
       ELSE IF asFloat.some THEN TokRes(Some(TokValue(asFloat.val)), q)
       ELSE TokRes(None, q)

\* next_true / next_false / next_null: for_each runs over every character of
\* the word, so Len(word) characters are taken (fewer at end of input) whether
\* or not one of them mismatched.
next_word(inp, p, word, v) ==
    LET failed == \E k \in 1..Len(word) :
                      p + k > Len(inp) \/ inp[p + k] # word[k]
    IN TokRes(IF failed THEN None ELSE Some(TokValue(v)),
              Min(p + Len(word), Len(inp)))

next_true(inp, p) == next_word(inp, p, <<"t", "r", "u", "e">>, Bool(TRUE))
next_false(inp, p) == next_word(inp, p, <<"f", "a", "l", "s", "e">>, Bool(FALSE))
next_null(inp, p) == next_word(inp, p, <<"n", "u", "l", "l">>, Null)

\* next_string with the escaping backslash kept in the string
RECURSIVE StringLoop_KeepBackslash(_, _, _, _)
StringLoop_KeepBackslash(inp, q, found_str, is_escaped) ==
    IF q >= Len(inp) THEN TokRes(Some(TokValue(JsonString(found_str))), q)
    ELSE LET c == inp[q + 1] IN
         IF is_escaped
         THEN StringLoop_KeepBackslash(inp, q + 1, Append(found_str, c), FALSE)
         ELSE IF c = "\\"
         THEN StringLoop_KeepBackslash(inp, q + 1, Append(found_str, c), TRUE)
         ELSE IF c = "\"" THEN TokRes(Some(TokValue(JsonString(found_str))), q + 1)
         ELSE StringLoop_KeepBackslash(inp, q + 1, Append(found_str, c), FALSE)

\* the while loop of next_string: q characters consumed, found_str collected
RECURSIVE StringLoop(_, _, _, _)
StringLoop(inp, q, found_str, is_escaped) ==
    IF q >= Len(inp) THEN TokRes(Some(TokValue(JsonString(found_str))), q)
    ELSE LET c == inp[q + 1] IN
         IF is_escaped THEN StringLoop(inp, q + 1, Append(found_str, c), FALSE)
         ELSE IF c = "\\" THEN StringLoop(inp, q + 1, found_str, TRUE)
         ELSE IF c = "\"" THEN TokRes(Some(TokValue(JsonString(found_str))), q + 1)
         ELSE StringLoop(inp, q + 1, Append(found_str, c), FALSE)

next_string(inp, p) == StringLoop(inp, p + 1, <<>>, FALSE)

RECURSIVE next_token(_, _)
next_token(inp, p) ==
    IF p >= Len(inp) THEN TokRes(None, p)
    ELSE LET c == inp[p + 1] IN
         CASE c = "{" -> TokRes(Some(CurlyBracketOpen), p + 1)
           [] c = "}" -> TokRes(Some(CurlyBracketClose), p + 1)
           [] c = "[" -> TokRes(Some(BracketOpen), p + 1)
           [] c = "]" -> TokRes(Some(BracketClose), p + 1)
           [] c = "," -> TokRes(Some(Comma), p + 1)
           [] c = ":" -> TokRes(Some(Colon), p + 1)
           [] c = "\"" -> next_string(inp, p)
           [] IsWhitespace(c) -> next_token(inp, p + 1)
           [] c = "t" -> next_true(inp, p)
           [] c = "f" -> next_false(inp, p)
           [] c = "n" -> next_null(inp, p)
           [] IsDigit(c) -> next_number(inp, p)
           [] OTHER -> TokRes(None, p)

(***************************************************************************)
(* impl Display for Value.  Array and Object go through {:#?}: the pretty  *)
(* DebugList / DebugMap of the standard library, whose PadAdapter indents  *)
(* every line of an entry and which ends every entry with ",\n".  A        *)
(* HashMap iterates in an unspecified order, so a Value has a set of       *)
(* renderings.                                                             *)
(***************************************************************************)
RECURSIVE IntDigits(_)
IntDigits(n) ==
    IF n < 10 THEN <<DigitChars[n + 1]>>
    ELSE Append(IntDigits(n \div 10), DigitChars[(n % 10) + 1])

\* the concatenation of a sequence of texts
RECURSIVE Flatten(_)
Flatten(ss) ==
    IF ss = <<>> THEN <<>>
    ELSE IF Len(ss) = 1 THEN ss[1]
    ELSE LET h == Len(ss) \div 2
         IN Flatten(SubSeq(ss, 1, h)) \o Flatten(SubSeq(ss, h + 1, Len(ss)))

\* PadAdapter::write_str: four spaces before the first character of a line
Pad(s, on_newline) ==
    Flatten([k \in 1..Len(s) |->
                (IF (k = 1 /\ on_newline) \/ (k > 1 /\ s[k - 1] = "\n")
                 THEN <<" ", " ", " ", " ">> ELSE <<>>)
                \o <<s[k]>>])

\* <String as Debug>::fmt
EscapeDebug(c) ==
    CASE c = "\"" -> <<"\\", "\"">>
      [] c = "\\" -> <<"\\", "\\">>
      [] c = "\n" -> <<"\\", "n">>
      [] OTHER -> <<c>>

DebugString(s) ==
    <<"\"">> \o Flatten([k \in 1..Len(s) |-> EscapeDebug(s[k])]) \o <<"\"">>

Perms(S) ==
    {o \in [1..Cardinality(S) -> S] :
        \A i, j \in 1..Cardinality(S) : o[i] = o[j] => i = j}

ProdSeq(Ss) ==
    {t \in [1..Len(Ss) -> UNION {Ss[k] : k \in 1..Len(Ss)}] :
        \A k \in 1..Len(Ss) : t[k] \in Ss[k]}

\* a Float written without its fraction
DisplayFloat_NoFraction(fl) == fl.ip

DisplayFloat(fl) ==
    IF fl.fp = <<>> THEN fl.ip ELSE fl.ip \o <<".">> \o fl.fp

RECURSIVE Renders(_)
Renders(v) ==
    CASE v.kind = "Null" -> {<<"n", "u", "l", "l">>}
      [] v.kind = "Int" -> {IntDigits(v.i)}
      [] v.kind = "Float" -> {DisplayFloat(v)}
      [] v.kind = "JsonString" -> {<<"\"">> \o v.s \o <<"\"">>}
      [] v.kind = "Bool" ->
            {IF v.b THEN <<"t", "r", "u", "e">> ELSE <<"f", "a", "l", "s", "e">>}
      [] v.kind = "Array" ->
            IF v.v = <<>> THEN {<<"[", "]">>}
            ELSE {<<"[", "\n">>
                  \o Flatten([k \in 1..Len(v.v) |->
                                 Pad(t[k] \o <<",", "\n">>, TRUE)])
                  \o <<"]">> :
                  t \in ProdSeq([k \in 1..Len(v.v) |-> Renders(v.v[k])])}
      [] v.kind = "Object" ->
            IF DOMAIN v.map = {} THEN {<<"{", "}">>}
            ELSE UNION {
                   {<<"{", "\n">>
                    \o Flatten([k \in 1..Len(o) |->
                                   Pad(DebugString(o[k]) \o <<":", " ">>
                                       \o t[k] \o <<",", "\n">>, TRUE)])
                    \o <<"}">> :
                    t \in ProdSeq([k \in 1..Len(o) |-> Renders(v.map[o[k]])])} :
                   o \in Perms(DOMAIN v.map)}

(***************************************************************************)
(* Soft lookups: Value::get_arr / get_map and OptionValueExt               *)
(***************************************************************************)
\* get_arr counting positions from one
get_arr_OneBased(v, i) ==
    IF v.kind = "Array" THEN (IF i \in 1..Len(v.v) THEN Some(v.v[i]) ELSE None)
    ELSE None

get_arr(v, i) ==
    IF v.kind = "Array" THEN (IF i + 1 \in 1..Len(v.v) THEN Some(v.v[i + 1]) ELSE None)
    ELSE None

get_map(v, key) ==
    IF v.kind = "Object" THEN (IF key \in DOMAIN v.map THEN Some(v.map[key]) ELSE None)
    ELSE None

opt_get_arr(o, i) == IF o.some THEN get_arr(o.val, i) ELSE None
opt_get_map(o, key) == IF o.some THEN get_map(o.val, key) ELSE None

(***************************************************************************)
(* Peekable<Tokenizer>: the cursor ts = (pos, peeked, log, taken).  peeked *)
(* is the Option<Option<Token>> slot of std::iter::Peekable; log records   *)
(* every call of Tokenizer::next_token the adaptor makes; taken counts the *)
(* tokens next() has handed to the parser.                                 *)
(***************************************************************************)
Cursor(p, pk, log, n) == [pos |-> p, peeked |-> pk, log |-> log, taken |-> n]
Count(ot) == IF ot.some THEN 1 ELSE 0
Pulled(tok, ts) == [tok |-> tok, ts |-> ts]
LogEntry(from, r) == [from |-> from, to |-> r.pos, tok |-> r.tok]

t_peek(inp, ts) ==
    IF ts.peeked.some THEN Pulled(ts.peeked.val, ts)
    ELSE LET r == next_token(inp, ts.pos)
         IN Pulled(r.tok, Cursor(r.pos, Some(r.tok),
                                 Append(ts.log, LogEntry(ts.pos, r)), ts.taken))

t_next(inp, ts) ==
    IF ts.peeked.some
    THEN Pulled(ts.peeked.val,
                [ts EXCEPT !.peeked = None, !.taken = @ + Count(ts.peeked.val)])
    ELSE LET r == next_token(inp, ts.pos)
         IN Pulled(r.tok, Cursor(r.pos, None,
                                 Append(ts.log, LogEntry(ts.pos, r)),
                                 ts.taken + Count(r.tok)))

IsTok(ot, tok) == ot.some /\ ot.val = tok
IsStringTok(ot) ==
    ot.some /\ ot.val.t = "Value" /\ ot.val.val.kind = "JsonString"

(***************************************************************************)
(* Parser.  The call stack of parse_object / parse_array is explicit: a    *)
(* frame holds the locals of a call suspended in its parse_value call.     *)
(* A step of the body ends either in a further parse_value call or in the  *)
(* return of the call.                                                     *)
(***************************************************************************)
ObjectFrame(map, s) == [fn |-> "parse_object", map |-> map, s |-> s]
ArrayFrame(vec) == [fn |-> "parse_array", vec |-> vec]
CallValue(frame, ts) == [k |-> "call", frame |-> frame, ts |-> ts]
Return(r, ts) == [k |-> "ret", ret |-> r, ts |-> ts]

\* an insert that keeps the value a key already has
MapInsert_KeepFirst(map, s, val) ==
    [k \in DOMAIN map \cup {s} |-> IF k \in DOMAIN map THEN map[k] ELSE val]

\* HashMap::insert
MapInsert(map, s, val) ==
    [k \in DOMAIN map \cup {s} |-> IF k = s THEN val ELSE map[k]]

\* parse_object, "Consume }"
ObjectClose(inp, map, ts) ==
    LET n == t_next(inp, ts)
    IN IF IsTok(n.tok, CurlyBracketClose) THEN Return(Some(Object(map)), n.ts)
       ELSE Return(None, n.ts)

\* parse_object, the while guard and the (next, next) match
ObjectLoop(inp, map, ts) ==
    LET pk == t_peek(inp, ts) IN
    IF IsStringTok(pk.tok)
    THEN LET n1 == t_next(inp, pk.ts)
             n2 == t_next(inp, n1.ts)
         IN IF IsTok(n2.tok, Colon)
            THEN CallValue(ObjectFrame(map, n1.tok.val.val.s), n2.ts)
            ELSE Return(None, n2.ts)
    ELSE ObjectClose(inp, map, pk.ts)

\* parse_object, after its parse_value call returned r
ObjectAfterValue(inp, frame, r, ts) ==
    IF r.some
    THEN LET map == MapInsert(frame.map, frame.s, r.val)
             pk == t_peek(inp, ts)
         IN IF IsTok(pk.tok, Comma)
            THEN ObjectLoop(inp, map, t_next(inp, pk.ts).ts)
            ELSE ObjectClose(inp, map, pk.ts)
    ELSE ObjectClose(inp, frame.map, ts)

\* parse_array, after "Consume ["
ArrayStart(inp, ts) ==
    LET pk == t_peek(inp, ts) IN
    IF IsTok(pk.tok, BracketClose)
    THEN Return(Some(Array(<<>>)), t_next(inp, pk.ts).ts)
    ELSE CallValue(ArrayFrame(<<>>), pk.ts)

\* parse_array pushing at the front of vec
ArrayAfterValue_Prepend(inp, frame, r, ts) ==
    IF r.some
    THEN LET vec == <<r.val>> \o frame.vec
             n == t_next(inp, ts)
         IN IF IsTok(n.tok, Comma) THEN CallValue(ArrayFrame(vec), n.ts)
            ELSE IF IsTok(n.tok, BracketClose) THEN Return(Some(Array(vec)), n.ts)
            ELSE Return(None, n.ts)
    ELSE Return(Some(Array(frame.vec)), ts)

\* parse_array looping again when parse_value found nothing
ArrayAfterValue_Retry(inp, frame, r, ts) ==
    IF r.some
    THEN LET vec == Append(frame.vec, r.val)
             n == t_next(inp, ts)
         IN IF IsTok(n.tok, Comma) THEN CallValue(ArrayFrame(vec), n.ts)
            ELSE IF IsTok(n.tok, BracketClose) THEN Return(Some(Array(vec)), n.ts)
            ELSE Return(None, n.ts)
    ELSE CallValue(ArrayFrame(frame.vec), ts)

\* parse_array, the while-let on parse_value returning r
ArrayAfterValue(inp, frame, r, ts) ==
    IF r.some
    THEN LET vec == Append(frame.vec, r.val)
             n == t_next(inp, ts)
         IN IF IsTok(n.tok, Comma) THEN CallValue(ArrayFrame(vec), n.ts)
            ELSE IF IsTok(n.tok, BracketClose) THEN Return(Some(Array(vec)), n.ts)
            ELSE Return(None, n.ts)
    ELSE Return(Some(Array(frame.vec)), ts)

(***************************************************************************)
(* Documents of the grammar of spec section 4.2: a value is an object, an  *)
(* array or a literal; an object is a brace-enclosed, comma-separated,     *)
(* possibly empty list of pairs string ':' value; an array is a bracket-   *)
(* enclosed, comma-separated, possibly empty list of values.  They are     *)
(* kept as syntax trees, with the text a tree is written as.  A literal    *)
(* carries its text and the Value that text denotes.                       *)
(***************************************************************************)
MaxNodes == 3
MaxRichNodes == 2
MaxRawLen == 3
MaxHops == 2

NoDoc == [d |-> "none"]
DLit(text, val) == [d |-> "lit", text |-> text, val |-> val]
DArr(items) == [d |-> "arr", items |-> items]
DObj(pairs) == [d |-> "obj", pairs |-> pairs]
Pair(key, val) == [key |-> key, val |-> val]

Quoted(s) == <<"\"">> \o s \o <<"\"">>

LeafLits ==
    {DLit(<<"1">>, VInt(1)), DLit(Quoted(<<"a">>), JsonString(<<"a">>))}

RichLits ==
    LeafLits \cup
    {DLit(<<"0">>, VInt(0)),
     DLit(<<"4", "2">>, VInt(42)),
     DLit(<<"1", ".", "5">>, VFloat(<<"1">>, <<"5">>)),
     DLit(<<"2", ".", "0">>, VFloat(<<"2">>, <<>>)),
     DLit(<<"t", "r", "u", "e">>, Bool(TRUE)),
     DLit(<<"f", "a", "l", "s", "e">>, Bool(FALSE)),
     DLit(<<"n", "u", "l", "l">>, Null),
     DLit(Quoted(<<>>), JsonString(<<>>)),
     DLit(Quoted(<<"a", "\\", "\"", "b">>), JsonString(<<"a", "\"", "b">>)),
     DLit(Quoted(<<"\\", "\\">>), JsonString(<<"\\">>)),
     DLit(Quoted(<<"t", " ", "1">>), JsonString(<<"t", " ", "1">>))}

Keys == {<<"a">>, <<"b">>}

RECURSIVE DocsOfSize(_, _), DocSeqs(_, _)
DocsOfSize(n, lits) ==
    IF n = 1 THEN lits \cup {DArr(<<>>), DObj(<<>>)}
    ELSE LET seqs == DocSeqs(n - 1, lits)
         IN {DArr(ds) : ds \in seqs}
            \cup UNION {{DObj([i \in 1..Len(ds) |-> Pair(ks[i], ds[i])]) :
                            ks \in [1..Len(ds) -> Keys]} :
                        ds \in seqs}

\* the non-empty sequences of documents with m nodes in total
DocSeqs(m, lits) ==
    UNION {LET heads == DocsOfSize(a, lits)
               rests == IF a = m THEN {<<>>} ELSE DocSeqs(m - a, lits)
           IN {<<d>> \o rest : d \in heads, rest \in rests} :
           a \in 1..m}

L1 == DLit(<<"1">>, VInt(1))
La == DLit(Quoted(<<"a">>), JsonString(<<"a">>))
L32 == DLit(<<"3", "2">>, VInt(32))
Lf == DLit(<<"3", "2", ".", "1", "2", "5">>, VFloat(<<"3", "2">>, <<"1", "2", "5">>))
Lq == DLit(Quoted(<<"a", "\\", "\"", "b">>), JsonString(<<"a", "\"", "b">>))
Lfalse == DLit(<<"f", "a", "l", "s", "e">>, Bool(FALSE))
Ltrue == DLit(<<"t", "r", "u", "e">>, Bool(TRUE))
Lnull == DLit(<<"n", "u", "l", "l">>, Null)

\* deeper documents, among them one shaped like that of examples/sugar.rs
SampleDocs ==
    {DArr(<<DArr(<<L1>>), La>>),
     DArr(<<L1, DObj(<<Pair(<<"a">>, La)>>), DArr(<<L1, La>>)>>),
     DObj(<<Pair(<<"a">>, L1), Pair(<<"b">>, L1), Pair(<<"a">>, La)>>),
     DObj(<<Pair(<<"a">>, DArr(<<L1, L32>>)),
            Pair(<<"b">>, DObj(<<Pair(<<"a">>, La), Pair(<<"a">>, Lnull)>>))>>),
     DObj(<<Pair(<<"k">>, Lq)>>),
     DObj(<<Pair(<<"n", "o">>, Lfalse),
            Pair(<<"i", "n">>,
                 DObj(<<Pair(<<"f">>, Lnull),
                        Pair(<<"a", "r", "r">>,
                             DArr(<<DObj(<<Pair(<<"x">>, Ltrue), Pair(<<"y">>, Lf)>>),
                                    DObj(<<Pair(<<"z">>,
                                                DArr(<<L1, DArr(<<L32>>)>>))>>)>>))>>)),
            Pair(<<"n">>, L32)>>)}

Docs ==
    UNION {DocsOfSize(n, LeafLits) : n \in 1..MaxNodes}
    \cup UNION {DocsOfSize(n, RichLits) : n \in 1..MaxRichNodes}
    \cup SampleDocs

RECURSIVE Text(_, _)
Text(d, sep) ==
    CASE d.d = "lit" -> d.text
      [] d.d = "arr" ->
            <<"[">>
            \o Flatten([i \in 1..Len(d.items) |->
                           (IF i > 1 THEN <<",">> \o sep ELSE <<>>)
                           \o Text(d.items[i], sep)])
            \o <<"]">>
      [] d.d = "obj" ->
            <<"{">>
            \o Flatten([i \in 1..Len(d.pairs) |->
                           (IF i > 1 THEN <<",">> \o sep ELSE <<>>)
                           \o Quoted(d.pairs[i].key) \o <<":">> \o sep
                           \o Text(d.pairs[i].val, sep)])
            \o <<"}">>

(***************************************************************************)
(* The inputs: the documents, the documents with a comma put before a      *)
(* closing delimiter, the documents with one character replaced or cut     *)
(* short, every short text over Alphabet, and the texts of Samples.        *)
(***************************************************************************)
MaxMutNodes == 2

Case(text, d, tg) == [input |-> text, doc |-> d, tag |-> tg]

Alphabet == {"[", "]", "{", "}", ",", ":", "\"", "\\", "1", ".", "t", " "}
MutChars == {"]", "}", ",", ":", "\"", "t", "n", "1", ".", "@"}

Samples ==
    {<<"[", "1", ",", "2", ",", "]">>,
     <<"{", "\"", "a", "\"", ":", "1", ",", "}">>,
     <<"{", "\"", "a", "\"", ":", "1", ",", "\"", "a", "\"", ":", "2", "}">>,
     <<"{", "\"", "k", "\"", ":", "\"", "a", "\\", "\"", "b", "\"", "}">>,
     <<"[", "[", "[", "1", "t", "r", "u", "x", "]", "]">>,
     <<"[", "[", "{", "\"", "a", "\"", "n", "u", "l", "]", "]", "]">>,
     <<"[", "1", ",", "@", "]">>,
     <<"2", "1", "4", "7", "4", "8", "3", "6", "4", "7">>,
     <<"2", "1", "4", "7", "4", "8", "3", "6", "4", "8">>,
     <<"4", "2", "9", "4", "9", "6", "7", "2", "9", "7">>,
     <<"0", "0", "0", "2", "1", "4", "7", "4", "8", "3", "6", "4", "7">>,
     <<"1", ".", "2", ".", "3">>,
     <<"1", ".">>,
     <<"t", "r", "u", "x", "1">>,
     <<"\"", "a", "b">>,
     <<"\"", "a", "\\">>,
     <<"{", "\"", "n", "o", "\"", ":", " ", "f", "a", "l", "s", "e", ",", "\n", " ", "\"", "i", "n", "\"", ":", " ", "{", "\"", "f", "\"", ":", " ", "n", "u", "l", "l", ",", " ", "\"", "a", "r", "r", "\"", ":", " ", "[", "{", "\"", "x", "\"", ":", " ", "t", "r", "u", "e", ",", " ", "\"", "y", "\"", ":", " ", "3", "2", ".", "1", "2", "5", "}", ",", " ", "{", "\"", "z", "\"", ":", " ", "[", "2", ",", "[", "3", "]", "]", "}", "]", "}", ",", "\n", " ", "\"", "n", "\"", ":", " ", "3", "2", "}">>}

InsertAt(text, i, c) == SubSeq(text, 1, i - 1) \o <<c>> \o SubSeq(text, i, Len(text))
ReplaceAt(text, i, c) == [text EXCEPT ![i] = c]

\* the closing delimiters of the non-empty containers of a document's text
ClosePos(text) ==
    {i \in 2..Len(text) : text[i] \in {"]", "}"} /\ text[i - 1] \notin {"[", "{"}}

SmallDocs == UNION {DocsOfSize(n, LeafLits) : n \in 1..MaxMutNodes}

DocCases ==
    {Case(Text(d, <<>>), d, "doc") : d \in Docs}
    \cup {Case(Text(d, <<"\n", " ">>), d, "doc") : d \in SmallDocs \cup SampleDocs}

TrailingCases ==
    UNION {LET text == Text(d, <<>>)
           IN {Case(InsertAt(text, i, ","), d, "trailing") : i \in ClosePos(text)} :
           d \in Docs}

MutatedCases ==
    UNION {LET text == Text(d, <<>>)
           IN {Case(ReplaceAt(text, i, c), NoDoc, "raw") :
                  i \in 1..Len(text), c \in MutChars}
              \cup {Case(SubSeq(text, 1, i), NoDoc, "raw") :
                       i \in 0..(Len(text) - 1)} :
           d \in SmallDocs}

RawCases ==
    UNION {{Case(t, NoDoc, "raw") : t \in [1..n -> Alphabet]} : n \in 0..MaxRawLen}
    \cup {Case(t, NoDoc, "raw") : t \in Samples}

(***************************************************************************)
(* Parser::new, then the steps of Parser::parse                            *)
(***************************************************************************)
Init ==
    /\ \/ \E c \in DocCases : input = c.input /\ doc = c.doc /\ tag = c.tag
       \/ \E c \in TrailingCases : input = c.input /\ doc = c.doc /\ tag = c.tag
       \/ \E c \in MutatedCases : input = c.input /\ doc = c.doc /\ tag = c.tag
       \/ \E c \in RawCases : input = c.input /\ doc = c.doc /\ tag = c.tag
    /\ pos = 0
    /\ peeked = None
    /\ taken = 0
    /\ stack = <<>>
    /\ ctl = "call"
    /\ ret = None
    /\ result = None
    /\ tokLog = <<>>
    /\ errSeen = FALSE
    /\ phase = 1
    /\ first = None
    /\ cur = None
    /\ missed = FALSE
    /\ hops = 0

ts == Cursor(pos, peeked, tokLog, taken)
Top == stack[Len(stack)]
Popped == SubSeq(stack, 1, Len(stack) - 1)

\* carry out the outcome c of a step of a body running above the frames stk
Finish(c, stk) ==
    /\ pos' = c.ts.pos
    /\ peeked' = c.ts.peeked
    /\ tokLog' = c.ts.log
    /\ taken' = c.ts.taken
    /\ IF c.k = "call"
       THEN stack' = Append(stk, c.frame) /\ ctl' = "call" /\ ret' = None
            /\ errSeen' = errSeen
       ELSE stack' = stk /\ ctl' = "ret" /\ ret' = c.ret
            /\ errSeen' = (errSeen \/ ~c.ret.some)
    /\ UNCHANGED <<input, doc, tag, result, phase, first, cur, missed, hops>>

\* parse_value: self.t.peek()? finds no token
ParseValueNone ==
    /\ ctl = "call"
    /\ LET pk == t_peek(input, ts) IN
       /\ ~pk.tok.some
       /\ Finish(Return(None, pk.ts), stack)

\* parse_value: Token::Value(_) is taken and returned
ParseValueLiteral ==
    /\ ctl = "call"
    /\ LET pk == t_peek(input, ts) IN
       /\ pk.tok.some /\ pk.tok.val.t = "Value"
       /\ Finish(Return(Some(pk.tok.val.val), t_next(input, pk.ts).ts), stack)

\* parse_value: any other token is left in place
ParseValueUnexpected ==
    /\ ctl = "call"
    /\ LET pk == t_peek(input, ts) IN
       /\ pk.tok.some
       /\ pk.tok.val.t \notin {"Value", "CurlyBracketOpen", "BracketOpen"}
       /\ Finish(Return(None, pk.ts), stack)

\* parse_value -> parse_object, up to its first parse_value call or its return
ParseObject ==
    /\ ctl = "call"
    /\ LET pk == t_peek(input, ts) IN
       /\ IsTok(pk.tok, CurlyBracketOpen)
       /\ Finish(ObjectLoop(input, <<>>, t_next(input, pk.ts).ts), stack)

\* parse_value -> parse_array, up to its first parse_value call or its return
ParseArray ==
    /\ ctl = "call"
    /\ LET pk == t_peek(input, ts) IN
       /\ IsTok(pk.tok, BracketOpen)
       /\ Finish(ArrayStart(input, t_next(input, pk.ts).ts), stack)

\* parse_object resumes with the result of its parse_value call
ObjectResume ==
    /\ ctl = "ret" /\ stack # <<>> /\ Top.fn = "parse_object"
    /\ Finish(ObjectAfterValue(input, Top, ret, ts), Popped)

\* parse_array resumes with the result of its parse_value call
ArrayResume ==
    /\ ctl = "ret" /\ stack # <<>> /\ Top.fn = "parse_array"
    /\ Finish(ArrayAfterValue(input, Top, ret, ts), Popped)

\* Parser::parse returns; the caller holds val and val.as_ref()
ParseReturn ==
    /\ ctl = "ret" /\ stack = <<>>
    /\ result' = ret
    /\ cur' = ret
    /\ ctl' = "done"
    /\ UNCHANGED <<input, doc, tag, pos, peeked, taken, stack, ret, tokLog,
                   errSeen, phase, first, missed, hops>>

\* the parsed Value is rendered and a new Parser is made for the text
Render ==
    /\ ctl = "done" /\ phase = 1 /\ hops = 0 /\ result.some
    /\ \E t \in Renders(result.val) : input' = t
    /\ doc' = NoDoc /\ tag' = "rendered"
    /\ pos' = 0 /\ peeked' = None /\ taken' = 0 /\ stack' = <<>> /\ ctl' = "call"
    /\ ret' = None /\ result' = None /\ tokLog' = <<>> /\ errSeen' = FALSE
    /\ phase' = 2 /\ first' = result /\ cur' = None
    /\ UNCHANGED <<missed, hops>>

LookKeys == Keys \cup {<<"z">>}
LookIdx == 0..2

\* parse(mut self) has consumed the Parser: the caller is left with val alone
ValOnly ==
    /\ input' = <<>> /\ doc' = NoDoc /\ tag' = "val"
    /\ pos' = 0 /\ peeked' = None /\ taken' = 0 /\ tokLog' = <<>>
    /\ errSeen' = FALSE /\ phase' = 3
    /\ UNCHANGED <<stack, ctl, ret, result, first>>

\* one more .get_map(key) on the chain that began at val.as_ref()
SoftGetMap ==
    /\ ctl = "done" /\ phase # 2 /\ hops < MaxHops
    /\ \E key \in LookKeys :
          /\ cur' = opt_get_map(cur, key)
          /\ missed' = (missed \/ ~opt_get_map(cur, key).some)
    /\ hops' = hops + 1
    /\ ValOnly

\* one more .get_arr(i) on the chain
SoftGetArr ==
    /\ ctl = "done" /\ phase # 2 /\ hops < MaxHops
    /\ \E i \in LookIdx :
          /\ cur' = opt_get_arr(cur, i)
          /\ missed' = (missed \/ ~opt_get_arr(cur, i).some)
    /\ hops' = hops + 1
    /\ ValOnly

Next ==
    \/ ParseValueNone
    \/ ParseValueLiteral
    \/ ParseValueUnexpected
    \/ ParseObject
    \/ ParseArray
    \/ ObjectResume
    \/ ArrayResume
    \/ ParseReturn
    \/ Render
    \/ SoftGetMap
    \/ SoftGetArr

Spec == Init /\ [][Next]_vars

(***************************************************************************)
(* What the claims are stated with                                         *)
(***************************************************************************)
Done == ctl = "done"
Parsed == Done /\ phase = 1
Held == Done /\ phase # 2
Logged == {tokLog[k] : k \in 1..Len(tokLog)}

\* the position a next_token call started at p dispatches on
SkipWs(inp, p) ==
    CHOOSE q \in p..Len(inp) :
        /\ \A k \in (p + 1)..q : IsWhitespace(inp[k])
        /\ q = Len(inp) \/ ~IsWhitespace(inp[q + 1])

\* the k-th smallest member of a set of numbers, and the subsequence it selects
Kth(S, k) == CHOOSE i \in S : Cardinality({j \in S : j < i}) = k - 1
Pick(inp, S) == [k \in 1..Cardinality(S) |-> inp[Kth(S, k)]]

\* the tree a document denotes when a repeated key keeps its last value
LastIdx(pairs, key) ==
    CHOOSE i \in 1..Len(pairs) :
        /\ pairs[i].key = key
        /\ \A j \in (i + 1)..Len(pairs) : pairs[j].key # key
KeySet(pairs) == {pairs[i].key : i \in 1..Len(pairs)}

RECURSIVE Expect(_)
Expect(d) ==
    CASE d.d = "lit" -> d.val
      [] d.d = "arr" -> Array([i \in 1..Len(d.items) |-> Expect(d.items[i])])
      [] d.d = "obj" ->
            Object([k \in KeySet(d.pairs) |->
                       Expect(d.pairs[LastIdx(d.pairs, k)].val)])

\* the shape of v is that of document d
RECURSIVE Matches(_, _)
Matches(v, d) ==
    CASE d.d = "lit" -> v = d.val
      [] d.d = "arr" ->
            /\ v.kind = "Array"
            /\ Len(v.v) = Len(d.items)
            /\ \A i \in 1..Len(d.items) : Matches(v.v[i], d.items[i])
      [] d.d = "obj" ->
            /\ v.kind = "Object"
            /\ DOMAIN v.map = KeySet(d.pairs)
            /\ \A k \in DOMAIN v.map :
                  \E i \in 1..Len(d.pairs) :
                      d.pairs[i].key = k /\ Matches(v.map[k], d.pairs[i].val)

\* every object of v maps each key of its document to the last value given
RECURSIVE LastWins(_, _)
LastWins(v, d) ==
    CASE d.d = "lit" -> TRUE
      [] d.d = "arr" ->
            /\ v.kind = "Array"
            /\ Len(v.v) = Len(d.items)
            /\ \A i \in 1..Len(d.items) : LastWins(v.v[i], d.items[i])
      [] d.d = "obj" ->
            /\ v.kind = "Object"
            /\ \A i \in 1..Len(d.pairs) :
                  (\A j \in (i + 1)..Len(d.pairs) : d.pairs[j].key # d.pairs[i].key)
                  => /\ d.pairs[i].key \in DOMAIN v.map
                     /\ v.map[d.pairs[i].key] = Expect(d.pairs[i].val)
                     /\ LastWins(v.map[d.pairs[i].key], d.pairs[i].val)
            /\ \A k \in DOMAIN v.map : k \in KeySet(d.pairs)

\* C1: an input with a comma right before the closing delimiter of a
\* non-empty array or object makes Parser::parse return None.
C1_TrailingCommaRejected == (Parsed /\ tag = "trailing") => ~result.some

\* C2: parsing is all-or-nothing: once any parse_value, parse_object or
\* parse_array call has returned None, Parser::parse returns None.
C2_AllOrNothing == (Done /\ errSeen) => ~result.some

\* C3: a document of the grammar parses to Some(tree), the tree having the
\* document's shape: arrays of the same length in source order, objects with
\* the document's key set, scalars with the literal's value.
C3_DocumentsParse ==
    (Parsed /\ tag = "doc") => (result.some /\ Matches(result.val, doc))

C3_Witness ==
    /\ Parsed /\ tag = "doc" /\ result.some
    /\ result.val.kind = "Object"
    /\ <<"i", "n">> \in DOMAIN result.val.map
    /\ result.val.map[<<"i", "n">>].kind = "Object"

C5_LastWriteWins ==
    (Parsed /\ tag = "doc") => (result.some /\ LastWins(result.val, doc))

C5_Witness ==
    /\ Parsed /\ tag = "doc" /\ result.some /\ doc.d = "obj"
    /\ \E i, j \in 1..Len(doc.pairs) :
          /\ i < j
          /\ doc.pairs[i].key = doc.pairs[j].key
          /\ Expect(doc.pairs[i].val) # Expect(doc.pairs[j].val)
    /\ Cardinality(KeySet(doc.pairs)) > 1

\* the string literal whose opening quote is inp[start]
IsEscaped(inp, start, i) ==
    Cardinality({k \in (start + 1)..(i - 1) :
                    \A m \in k..(i - 1) : inp[m] = "\\"}) % 2 = 1
ClosingQuotes(inp, start) ==
    {i \in (start + 1)..Len(inp) : inp[i] = "\"" /\ ~IsEscaped(inp, start, i)}
StringEnd(inp, start) ==
    IF ClosingQuotes(inp, start) = {} THEN Len(inp) + 1
    ELSE CHOOSE i \in ClosingQuotes(inp, start) :
             \A j \in ClosingQuotes(inp, start) : i <= j
StringBody(inp, start) ==
    Pick(inp, {i \in (start + 1)..(StringEnd(inp, start) - 1) :
                  inp[i] # "\\" \/ IsEscaped(inp, start, i)})

\* C6: a next_token call that meets an opening quote returns the JsonString
\* of the characters up to the first unescaped quote, escaping backslashes
\* dropped and the character after each kept; it consumes that quote and no
\* more; at end of input it returns what was collected.
C6_StringScan ==
    \A e \in Logged :
        LET q == SkipWs(input, e.from) IN
        (q < Len(input) /\ input[q + 1] = "\"")
        => /\ e.tok = Some(TokValue(JsonString(StringBody(input, q + 1))))
           /\ e.to = Min(StringEnd(input, q + 1), Len(input))

C6_Witness ==
    /\ Parsed /\ result.some /\ result.val.kind = "Object"
    /\ <<"k">> \in DOMAIN result.val.map
    /\ result.val.map[<<"k">>] = JsonString(<<"a", "\"", "b">>)
    /\ tag = "raw"

\* C7: a soft lookup returns the child exactly when the receiver is an
\* Object holding the key (get_map) or an Array with the index in bounds
\* (get_arr), and None otherwise, also on an empty Option; after one miss a
\* chain of soft lookups stays None.
C7_SoftLookups ==
    Held =>
      /\ missed => ~cur.some
      /\ \A key \in LookKeys :
            opt_get_map(cur, key) =
               IF cur.some /\ cur.val.kind = "Object" /\ key \in DOMAIN cur.val.map
               THEN Some(cur.val.map[key]) ELSE None
      /\ \A i \in LookIdx :
            opt_get_arr(cur, i) =
               IF cur.some /\ cur.val.kind = "Array" /\ i < Len(cur.val.v)
               THEN Some(cur.val.v[i + 1]) ELSE None

C7_Witness ==
    /\ Held /\ result.some /\ hops >= 2 /\ missed /\ ~cur.some
    /\ result.val.kind = "Array" /\ Len(result.val.v) > 0

\* C8: once a next_token call has returned None, every later call on the
\* same tokenizer returns None.
C8_NoneIsFinal ==
    \A i, j \in 1..Len(tokLog) :
        (i < j /\ ~tokLog[i].tok.some) => ~tokLog[j].tok.some

\* the run of digits and dots that starts at inp[q + 1]
NumChar(c) == IsDigit(c) \/ c = "."
RunStop(inp, q) ==
    CHOOSE r \in (q + 1)..Len(inp) :
        /\ \A k \in (q + 1)..r : NumChar(inp[k])
        /\ r = Len(inp) \/ ~NumChar(inp[r + 1])
Significant(run) ==
    LET z == Cardinality({k \in 1..(Len(run) - 1) : \A m \in 1..k : run[m] = "0"})
    IN SubSeq(run, z + 1, Len(run))
I32MaxDigits == <<"2", "1", "4", "7", "4", "8", "3", "6", "4", "7">>
LexLeq(a, b) ==
    \/ a = b
    \/ \E k \in 1..Len(a) :
          /\ DigitVal(a[k]) < DigitVal(b[k])
          /\ \A m \in 1..(k - 1) : a[m] = b[m]
FitsI32(run) ==
    \/ Len(Significant(run)) < Len(I32MaxDigits)
    \/ /\ Len(Significant(run)) = Len(I32MaxDigits)
       /\ LexLeq(Significant(run), I32MaxDigits)
RECURSIVE Decimal(_)
Decimal(ds) ==
    IF ds = <<>> THEN 0
    ELSE DigitVal(ds[Len(ds)]) + 10 * Decimal(SubSeq(ds, 1, Len(ds) - 1))
IsFloatTok(ot) == ot.some /\ ot.val.t = "Value" /\ ot.val.val.kind = "Float"

\* the values whose rendering parses back to them and is consumed whole
PlainString(s) == \A k \in 1..Len(s) : s[k] \notin {"\"", "\\", "\n"}
PlainKey(s) == \A k \in 1..Len(s) : s[k] # "\n"
RECURSIVE Clean(_)
Clean(v) ==
    CASE v.kind \in {"Int", "Bool", "Null"} -> TRUE
      [] v.kind = "Float" -> ~(v.fp = <<>> /\ FitsI32(v.ip))
      [] v.kind = "JsonString" -> PlainString(v.s)
      [] v.kind = "Array" -> v.v = <<>>
      [] v.kind = "Object" ->
            \A k \in DOMAIN v.map : PlainKey(k) /\ Clean(v.map[k])

\* a non-empty Array leaves its "]" unread, which only an enclosing Array
\* whose last element it is, or the end of the parse, puts up with
RECURSIVE RoundTrips(_)
RoundTrips(v) ==
    IF v.kind = "Array" /\ v.v # <<>>
    THEN /\ \A i \in 1..(Len(v.v) - 1) : Clean(v.v[i])
         /\ RoundTrips(v.v[Len(v.v)])
    ELSE Clean(v)

C9_NumberClassification ==
    \A e \in Logged :
        LET q == SkipWs(input, e.from) IN
        (q < Len(input) /\ IsDigit(input[q + 1]))
        => LET r == RunStop(input, q)
               run == SubSeq(input, q + 1, r)
               dots == Cardinality({k \in 1..Len(run) : run[k] = "."})
           IN /\ e.to = r
              /\ (dots = 0 /\ FitsI32(run))
                 => e.tok = Some(TokValue(VInt(Decimal(Significant(run)))))
              /\ (dots = 0 /\ ~FitsI32(run)) => IsFloatTok(e.tok)
              /\ dots = 1 => IsFloatTok(e.tok)
              /\ dots >= 2 => ~e.tok.some

C9_Witness ==
    /\ Parsed
    /\ \E e \in Logged :
          /\ IsFloatTok(e.tok)
          /\ e.tok.val.val.fp = <<>>
          /\ e.tok.val.val.ip = <<"2", "1", "4", "7", "4", "8", "3", "6", "4", "8">>

\* the steps a parse of the input can still take: four for every token not
\* yet taken, two for every suspended call, two while inside parse_value and
\* one while returning
Rank ==
    4 * (Len(input) - taken) + 2 * Len(stack)
    + (CASE ctl = "call" -> 2 [] ctl = "ret" -> 1 [] OTHER -> 0)
TokProgress == \A e \in Logged : e.tok.some => e.to > e.from
LoopProgress == (ctl = "ret" /\ ctl' = "call") => taken' > taken
Running == ctl \in {"call", "ret"}

\* C10: every parse of a finite input returns: every step of a running
\* parse lowers Rank, which is never negative; a next_token call that returns
\* a token has consumed a character, and a parse_object or parse_array loop
\* that goes round again has taken a token.
C10_Terminates ==
    /\ [](Rank >= 0 /\ TokProgress)
    /\ [][(Running => Rank' < Rank) /\ LoopProgress]_vars

C10_Witness ==
    /\ Done /\ result.some /\ Len(stack) = 0
    /\ \E e \in Logged : ~e.tok.some /\ e.to = e.from /\ e.from < Len(input)
    /\ Len(tokLog) > 3

====
